---------------------------- MODULE Spec2Model ----------------------------
(***************************************************************************)
(* Quantum Blackjack (QuantumBlackJack-withGUI.ipynb): the session         *)
(* controller QuantumCardGameGUI as a state machine.                       *)
(*                                                                         *)
(* Every button click schedules a coroutine (asyncio.create_task); a       *)
(* coroutine runs without interruption up to its next asyncio.sleep, so    *)
(* each action below is one such segment and the suspended coroutines are  *)
(* kept in `tasks`.  Neither start_game nor _on_action_button_clicked      *)
(* tests what is displayed or whether the game is over: the body of a      *)
(* click that was sent runs whatever the widgets show by then, so the      *)
(* click actions have no guard but the bounds of the model.                *)
(*                                                                         *)
(* The game circuit is simulated gate by gate.  No gate joins the Dealer's *)
(* qubits, the players' card 1 or the players' card 2, so the state is     *)
(* kept as these factors: one 6-qubit vector for each card of the two      *)
(* players and one 3-qubit vector for each card of the Dealer.  A measure  *)
(* gate in the middle of the circuit turns a factor into a mixture of      *)
(* basis states.  Half of every RY angle is a multiple of pi/4 plus a       *)
(* multiple of arctan(4/3), so every amplitude is an integer over a power  *)
(* of sqrt(2) and a power of 5 and the simulation is exact; MaxAngle       *)
(* bounds the angles that are taken.                                       *)
(*                                                                         *)
(* Next takes every initial card, every outcome of the shot and every card *)
(* the Dealer can draw.  The sessions are explored under specifications    *)
(* whose steps are steps of Next with these inputs taken from the sets     *)
(* named Sampled... below, each one bounded by a count (NumDeals,          *)
(* NumSettings, NumValues, NumDraws).  What is stated of the pure          *)
(* functions (the derivation of the hands, the summary, the distributions) *)
(* is checked over all their inputs.                                       *)
(***************************************************************************)
EXTENDS Integers, Sequences, FiniteSets

(* ------------------------- program constants --------------------------- *)
TARGET_SCORE == 17
DEALER_STANDS_THRESHOLD == 14
MIN_CARD_VALUE == 1
MAX_CARD_VALUE == 8
NUM_QUANTUM_CARDS_PER_PLAYER == 2

\* the sleeps of the coroutines, in half seconds: asyncio.sleep(1.5) in
\* _determine_turn_order and in _end_game, asyncio.sleep(1) before
\* _update_turn_highlight, asyncio.sleep(2) at the end of
\* _process_quantum_results and twice in the loop of _dealer_final_turn
TOSS_SLEEP == 3
SHOW_SLEEP == 2
END_SLEEP == 3
RESULTS_SLEEP == 4
DRAW_SLEEP == 4
DRAWN_SLEEP == 4

(* ------------------------------ bounds --------------------------------- *)
\* coroutines suspended at the same time
MaxTasks == 2
\* bodies of button clicks run in one session
MaxActions == 4
\* bodies of button clicks run in each session of the game played again
MaxReplayActions == 2
\* clicks on the start button when the game is played more than once
MaxSessions == 2
\* clicks on the start button when the game is played once
MaxStarts == 1
\* the largest angle code: the angles taken for a qubit are 0..MaxAngle
MaxAngle == 6
\* the deals, the settings of the six angles, the card values read from the
\* measured groups and the cards drawn by the Dealer that the explored
\* sessions take
NumDeals == 1
NumSettings == 1
NumValues == 2
NumDraws == 2

(* ------------------------------ helpers -------------------------------- *)
Participants == {"Player 1", "Player 2", "Dealer"}
DictOrder == <<"Player 1", "Player 2", "Dealer">>
EmptyDict == [p \in {} |-> 0]
PlayerName(n) == IF n = 1 THEN "Player 1" ELSE "Player 2"

Bit == {0, 1}
Bits3 == {<<a, b, c>> : a \in Bit, b \in Bit, c \in Bit}

RECURSIVE Sum(_)
Sum(s) == IF s = <<>> THEN 0 ELSE Head(s) + Sum(Tail(s))

\* Python's s[::-1]
\* variant: the slice is not reversed
Reversed_Not(s) == s

Reversed(s) == [i \in 1..Len(s) |-> s[Len(s) + 1 - i]]

\* Python's int(binary_string, 2)
RECURSIVE IntBase2(_)
IntBase2(s) ==
  IF s = <<>> THEN 0 ELSE 2 * IntBase2(SubSeq(s, 1, Len(s) - 1)) + s[Len(s)]

GetCardValueFromBinary(binary_string) == IntBase2(binary_string) + 1

(* ------------------------- the random inputs --------------------------- *)
CardValues == MIN_CARD_VALUE..MAX_CARD_VALUE

\* np.random.randint for the initial cards: <<Dealer, Player 1, Player 2>>
DealInputs == CardValues \X CardValues \X CardValues
\* np.random.uniform for the RY angles of Player 1's card 1 and card 2;
\* angle t stands for the angle in [0, 2*pi) whose half is
\* (t \div 4)*arctan(4/3) + (t % 4)*pi/4 modulo pi: 0, pi/2, pi, 3*pi/2 for
\* 0..3 and 2*arctan(4/3), increased by pi/2 and by pi, for 4..6 (the angles
\* of all t are dense in the interval)
Angles == 0..MaxAngle
AngleInputs == (Angles \X Angles \X Angles) \X (Angles \X Angles \X Angles)
\* np.random.randint for the Dealer's automatic draws
DrawInputs == CardValues

RECURSIVE Power(_, _)
Power(b, n) == IF n = 0 THEN 1 ELSE b * Power(b, n - 1)

\* the deals counted from 0, Player 2's card moving first
DealCount == Cardinality(DealInputs)
DealAt(n) ==
  <<((n \div (MAX_CARD_VALUE * MAX_CARD_VALUE)) % MAX_CARD_VALUE) + 1,
    ((n \div MAX_CARD_VALUE) % MAX_CARD_VALUE) + 1,
    (n % MAX_CARD_VALUE) + 1>>
DealIndex(deal) ==
  (deal[1] - 1) * MAX_CARD_VALUE * MAX_CARD_VALUE
    + (deal[2] - 1) * MAX_CARD_VALUE + (deal[3] - 1)

\* the settings of the six angles counted from 0, the last angle of card 2
\* moving first
AngleBase == MaxAngle + 1
SettingCount == Power(AngleBase, 6)
SettingAt(n) ==
  LET Digit(k) == (n \div Power(AngleBase, k)) % AngleBase
  IN << <<Digit(5), Digit(4), Digit(3)>>, <<Digit(2), Digit(1), Digit(0)>> >>
SettingIndex(angles) ==
  LET flat == angles[1] \o angles[2]
  IN Sum([k \in 1..6 |-> flat[k] * Power(AngleBase, 6 - k)])

\* the inputs of the sessions that are explored.  The deals are the NumDeals
\* deals from FirstDeal on and the settings the NumSettings settings from
\* FirstSetting on (a setting in which every card has all its outcomes and no
\* two qubits of a card have the same distribution); the card values read
\* from the measured groups are the first NumValues of ValueOrder and the
\* Dealer's draws the first NumDraws of DrawOrder.  With the counts at
\* DealCount, SettingCount and MAX_CARD_VALUE the sets are the whole inputs.
FirstDeal == <<6, 8, 7>>
FirstSetting == << <<4, 2, 0>>, <<0, 4, 4>> >>
ValueOrder == <<8, 2, 5, 3, 6, 1, 4, 7>>
DrawOrder == <<8, 5, 1, 3, 6, 2, 4, 7>>

SampledDeals ==
  {DealAt((DealIndex(FirstDeal) + i) % DealCount) : i \in 0..(NumDeals - 1)}
SampledAngles ==
  {SettingAt((SettingIndex(FirstSetting) + i) % SettingCount) :
     i \in 0..(NumSettings - 1)}
SampledValues == {ValueOrder[i] : i \in 1..NumValues}
SampledDraws == {DrawOrder[i] : i \in 1..NumDraws}

(* ------------------------ the statevector simulator -------------------- *)
\* A state of n qubits is [amp, exp, p5]: the amplitude of basis state i
\* (bit q of i is qubit q) is amp[i] / (sqrt(2)^exp * 5^p5).
RECURSIVE Pow2(_)
Pow2(n) == IF n = 0 THEN 1 ELSE 2 * Pow2(n - 1)

RECURSIVE Pow5(_)
Pow5(n) == IF n = 0 THEN 1 ELSE 5 * Pow5(n - 1)

BitAt(i, q) == (i \div Pow2(q)) % 2

BasisState(n, k) ==
  [amp |-> [i \in 0..(Pow2(n) - 1) |-> IF i = k THEN 1 ELSE 0],
   exp |-> 0, p5 |-> 0]

ZeroState(n) == BasisState(n, 0)

RECURSIVE Reduce(_)
Reduce(sv) ==
  IF sv.exp >= 2 /\ \A i \in DOMAIN sv.amp : sv.amp[i] % 2 = 0
  THEN Reduce([sv EXCEPT !.amp = [i \in DOMAIN sv.amp |-> sv.amp[i] \div 2],
                         !.exp = sv.exp - 2])
  ELSE IF sv.p5 >= 1 /\ \A i \in DOMAIN sv.amp : sv.amp[i] % 5 = 0
       THEN Reduce([sv EXCEPT !.amp = [i \in DOMAIN sv.amp |-> sv.amp[i] \div 5],
                              !.p5 = sv.p5 - 1])
       ELSE sv

\* one-qubit gate <<<<m00, m01>>, <<m10, m11>>>> / (sqrt(2)^e * 5^f) on qubit q
Apply1(sv, q, m, e, f) ==
  LET a == sv.amp
      w == Pow2(q)
  IN Reduce([amp |-> [i \in DOMAIN a |->
                        IF BitAt(i, q) = 0
                        THEN m[1][1] * a[i] + m[1][2] * a[i + w]
                        ELSE m[2][1] * a[i - w] + m[2][2] * a[i]],
             exp |-> sv.exp + e,
             p5 |-> sv.p5 + f])

ApplyH(sv, q) == Apply1(sv, q, << <<1, 1>>, <<1, 0 - 1>> >>, 1, 0)

\* <<cosine, sine>> of k*arctan(4/3), both over 5^k
RECURSIVE Rotation(_)
Rotation(k) ==
  IF k = 0 THEN <<1, 0>>
  ELSE LET r == Rotation(k - 1)
       IN <<3 * r[1] - 4 * r[2], 4 * r[1] + 3 * r[2]>>

\* <<cosine, sine>> of half the angle t, both over 5^(t \div 4) and, for odd
\* t, over sqrt(2): the half is (t \div 4)*arctan(4/3) + (t % 4)*pi/4 modulo
\* pi, so its sine is not negative
HalfAngle(t) ==
  LET r == Rotation(t \div 4)
      turned == CASE t % 4 = 0 -> r
                  [] t % 4 = 1 -> <<r[1] - r[2], r[1] + r[2]>>
                  [] t % 4 = 2 -> <<0 - r[2], r[1]>>
                  [] t % 4 = 3 -> <<0 - r[1] - r[2], r[1] - r[2]>>
  IN IF turned[2] < 0 THEN <<0 - turned[1], 0 - turned[2]>> ELSE turned

\* RY(theta) = [[cos(theta/2), -sin(theta/2)], [sin(theta/2), cos(theta/2)]];
\* for theta = 2*arctan(4/3) the cosine is 3/5 and the sine 4/5
ApplyRY(sv, q, t) ==
  LET h == HalfAngle(t)
  IN Apply1(sv, q, << <<h[1], 0 - h[2]>>, <<h[2], h[1]>> >>, t % 2, t \div 4)

ApplyCX(sv, control, target) ==
  LET a == sv.amp
      w == Pow2(target)
  IN [sv EXCEPT !.amp = [i \in DOMAIN a |->
                           IF BitAt(i, control) = 0 THEN a[i]
                           ELSE IF BitAt(i, target) = 0 THEN a[i + w]
                                ELSE a[i - w]]]

\* qc.h(qubits) on the three qubits first, first + 1, first + 2
ApplyH3(sv, first) == ApplyH(ApplyH(ApplyH(sv, first), first + 1), first + 2)

\* the largest powers of sqrt(2) and of 5 under the amplitudes of a card:
\* the Hadamards and the rotations of the preparation and a Re-Shuffle of
\* each player; three rotations by the largest angle
MaxExp == 4 * 3
MaxP5 == 3 * (MaxAngle \div 4)

\* probabilities are counted in units of 1 / (2^MaxExp * 5^(2*MaxP5))
ProbOne == Pow2(MaxExp) * Pow5(2 * MaxP5)

\* probability of basis state i
Prob(sv, i) ==
  sv.amp[i] * sv.amp[i] * Pow2(MaxExp - sv.exp) * Pow5(2 * (MaxP5 - sv.p5))

\* In a card's 6-qubit vector Player 1's qubits are 0..2 and Player 2's are
\* 3..5, in the order they have in the registers (card 1 is register qubits
\* 3..5, card 2 is register qubits 0..2).
PlayerBase(player_num) == IF player_num = 1 THEN 0 ELSE 3

\* _prepare_player_card_with_rotations on the game circuit
PreparePlayerCardWithRotations(sv, angles) ==
  ApplyRY(ApplyRY(ApplyRY(ApplyH3(sv, 0), 0, angles[1]), 1, angles[2]),
          2, angles[3])

\* cx(player1_q[3], player2_q[5]); cx(player1_q[4], player2_q[4]);
\* cx(player1_q[5], player2_q[3]), and the same on qubits 0..2
Entangle(sv) == ApplyCX(ApplyCX(ApplyCX(sv, 0, 5), 1, 4), 2, 3)

\* Statevector.from_instruction(temp_qc).probabilities(): entry i (0-based)
\* is the probability of the basis state i of the temporary circuit
Probabilities(angles) ==
  LET state == PreparePlayerCardWithRotations(ZeroState(3), angles)
  IN [n \in 1..8 |-> Prob(state, n - 1)]

VARIABLES
  qc,                    \* the game circuit
  player_scores,
  initial_cards,
  player_hands,
  player_turn_order,
  current_player_index,
  game_over,
  current_round,
  measure_level,
  action_box,            \* 0: not displayed; n: child of player n's box
  hand_details,          \* hand_details_label
  verdict,               \* message_label while it shows the game's outcome
  start_button,          \* the start button is in the footer
  tasks,                 \* suspended coroutines, oldest first
  nActions,              \* bodies of clicks run in this session
  turn_resets,           \* Re-Shuffles since the action box was last handed over
  round_turns,           \* players the clicks of this round were attributed to
  session                \* number of start_game calls

vars == <<qc, player_scores, initial_cards, player_hands, player_turn_order,
          current_player_index, game_over, current_round, measure_level,
          action_box, hand_details, verdict, start_button, tasks, nActions,
          turn_resets, round_turns, session>>

NoCircuit ==
  [built |-> FALSE, pairs |-> <<>>, dealer |-> <<>>, h |-> <<>>,
   measured |-> 0, level3 |-> FALSE]
NoVerdict == [kind |-> "none", busted |-> <<>>, winners |-> <<>>]
NoDetails == [kind |-> "empty"]

\* a suspended coroutine: where it sleeps, the half seconds left of its sleep
\* and, in _dealer_final_turn, its dealer_total, its new_card_val and the
\* cards it has drawn
Task(kind, pc, wake) ==
  [kind |-> kind, pc |-> pc, wake |-> wake, total |-> 0, card |-> 0,
   draws |-> 0]

Init ==
  /\ qc = NoCircuit
  /\ player_scores = EmptyDict
  /\ initial_cards = EmptyDict
  /\ player_hands = EmptyDict
  /\ player_turn_order = <<>>
  /\ current_player_index = 0
  /\ game_over = FALSE
  /\ current_round = 1
  /\ measure_level = 3
  /\ action_box = 0
  /\ hand_details = NoDetails
  /\ verdict = NoVerdict
  /\ start_button = TRUE
  /\ tasks = <<>>
  /\ nActions = 0
  /\ turn_resets = 0
  /\ round_turns = <<>>
  /\ session = 0

(* ----------------------------- the circuit ----------------------------- *)
\* A group of qubits without measure gates is in the pure state sv.  Once it
\* has measure gates it is a mixture of basis states: outcomes holds the
\* bits that the last measure gates can give (<<Player 1 bits, Player 2
\* bits>> for a card of the players, the Dealer's bits for a card of the
\* Dealer), and after[p] tells whether player p has added an odd number of
\* Hadamard layers since (two layers on a basis state cancel).
Pure(sv) == [sv |-> sv, outcomes |-> {}, after |-> <<0, 0>>]
Mixed(outcomes) == [sv |-> <<>>, outcomes |-> outcomes, after |-> <<0, 0>>]
IsPure(group) == group.sv # <<>>

\* variant: the Dealer's qubits get no Hadamard
PrepareQuantumCircuit_DealerNoH(a1, a2) ==
  [built |-> TRUE,
   pairs |->
     <<Pure(Entangle(PreparePlayerCardWithRotations(ZeroState(6), a1))),
       Pure(Entangle(PreparePlayerCardWithRotations(ZeroState(6), a2)))>>,
   dealer |-> <<Pure(ZeroState(3)), Pure(ZeroState(3))>>,
   h |-> << <<0, 0>>, <<0, 0>> >>,
   measured |-> 0,
   level3 |-> FALSE]

\* pairs[c] is the group of the two players' card c, dealer[c] the group of
\* the Dealer's card c; h[p][c] counts the Hadamards player p added to card
\* c by Re-Shuffle; measured counts the runs of the circuit; level3 tells
\* that card 2 has measure gates
PrepareQuantumCircuit(a1, a2) ==
  [built |-> TRUE,
   pairs |->
     <<Pure(Entangle(PreparePlayerCardWithRotations(ZeroState(6), a1))),
       Pure(Entangle(PreparePlayerCardWithRotations(ZeroState(6), a2)))>>,
   dealer |-> <<Pure(ApplyH3(ZeroState(3), 0)), Pure(ApplyH3(ZeroState(3), 0))>>,
   h |-> << <<0, 0>>, <<0, 0>> >>,
   measured |-> 0,
   level3 |-> FALSE]

DistributionSnapshot(a1, a2) ==
  [kind |-> "dist", card1 |-> Probabilities(a1), card2 |-> Probabilities(a2)]

\* player_turn_order[current_player_index] raises IndexError past the end
InRange(order, index) == index < Len(order)

\* _update_turn_highlight: where the action box is afterwards; the box is
\* taken out of both players' boxes before the game_over test and before the
\* turn order is read
UpdateTurnHighlight(over, order, index) ==
  IF over THEN 0
  ELSE IF InRange(order, index) THEN order[index + 1] ELSE 0

\* variant: the two coin outcomes change places
DetermineTurnOrder_Swapped(coin) == IF coin = 0 THEN <<2, 1>> ELSE <<1, 2>>

DetermineTurnOrder(coin) == IF coin = 0 THEN <<1, 2>> ELSE <<2, 1>>

RemoveAt(s, i) == SubSeq(s, 1, i - 1) \o SubSeq(s, i + 1, Len(s))

(* ------------------------------ the timers ----------------------------- *)
\* asyncio resumes a sleeping coroutine when its sleep is over; coroutines
\* due in the same half second are resumed in either order
TimerDue(i) == tasks[i].wake = 0

(* ------------------------------ start_game ----------------------------- *)
\* self.initial_cards of the deal <<Dealer, Player 1, Player 2>>
InitialCards(deal) ==
  [p \in Participants |->
     CASE p = "Dealer" -> deal[1]
       [] p = "Player 1" -> deal[2]
       [] p = "Player 2" -> deal[3]]

\* start_game up to its first sleep, with the initial cards taken from
\* deals and the rotation angles from angle_sets; the coin message of
\* _determine_turn_order takes the place of the previous verdict.
\* max_sessions bounds the clicks on the start button.
StartGameWith(max_sessions, deals, angle_sets) ==
  /\ session < max_sessions
  /\ Len(tasks) < MaxTasks
  /\ \E deal \in deals, angles \in angle_sets :
       /\ initial_cards' = InitialCards(deal)
       /\ qc' = PrepareQuantumCircuit(angles[1], angles[2])
       /\ hand_details' = DistributionSnapshot(angles[1], angles[2])
  /\ start_button' = FALSE
  /\ game_over' = FALSE
  /\ current_round' = 1
  /\ current_player_index' = 0
  /\ player_hands' = EmptyDict
  /\ verdict' = NoVerdict
  /\ tasks' = Append(tasks, Task("start", "toss", TOSS_SLEEP))
  /\ nActions' = 0
  /\ turn_resets' = 0
  /\ round_turns' = <<>>
  /\ session' = session + 1
  /\ UNCHANGED <<player_scores, player_turn_order, measure_level, action_box>>

\* a click on the start button, the first one or a later one
StartGame == StartGameWith(MaxSessions, DealInputs, AngleInputs)

\* the only click on the start button, with the sampled inputs
StartGameSampled == StartGameWith(MaxStarts, SampledDeals, SampledAngles)

\* a click on the start button, the first one or a later one, with the
\* sampled inputs
PlayAgain == StartGameWith(MaxSessions, SampledDeals, SampledAngles)

\* the coin toss of _determine_turn_order and the assignment of its result
CoinToss ==
  \E i \in 1..Len(tasks) :
    /\ tasks[i].pc = "toss"
    /\ TimerDue(i)
    /\ \E coin \in {0, 1} : player_turn_order' = DetermineTurnOrder(coin)
    /\ verdict' = NoVerdict
    /\ tasks' = [tasks EXCEPT ![i].pc = "show", ![i].wake = SHOW_SLEEP]
    /\ UNCHANGED <<qc, player_scores, initial_cards, player_hands,
                   current_player_index, game_over, current_round,
                   measure_level, action_box, hand_details,
                   start_button, nActions, turn_resets, round_turns, session>>

\* the _update_turn_highlight that ends start_game and the round change
ShowTurn ==
  \E i \in 1..Len(tasks) :
    /\ tasks[i].pc = "show"
    /\ TimerDue(i)
    /\ action_box' = UpdateTurnHighlight(game_over, player_turn_order,
                                         current_player_index)
    /\ verdict' = IF action_box' # 0 THEN NoVerdict ELSE verdict
    /\ tasks' = RemoveAt(tasks, i)
    /\ turn_resets' = 0
    /\ UNCHANGED <<qc, player_scores, initial_cards, player_hands,
                   player_turn_order, current_player_index, game_over,
                   current_round, measure_level, hand_details,
                   start_button, nActions, round_turns, session>>

(* --------------------- _on_action_button_clicked ----------------------- *)
\* the part of _end_game before its first sleep
EndGame(index) ==
  /\ game_over' = TRUE
  /\ action_box' = UpdateTurnHighlight(TRUE, player_turn_order, index)
  /\ tasks' = Append(tasks, Task("end", "measure", END_SLEEP))

\* variant: the end of round 1 already ends the game
NextTurn_OneRound(resets) ==
  LET index == current_player_index + 1 IN
  IF index < Len(player_turn_order)
  THEN /\ current_player_index' = index
       /\ action_box' = UpdateTurnHighlight(game_over, player_turn_order, index)
       /\ turn_resets' = 0
       /\ UNCHANGED <<current_round, measure_level, game_over, tasks>>
  ELSE /\ current_player_index' = index
       /\ current_round' = current_round + 1
       /\ measure_level' = 3
       /\ EndGame(index)
       /\ turn_resets' = turn_resets + resets

\* _next_turn up to its first sleep or to its end
NextTurn(resets) ==
  LET index == current_player_index + 1 IN
  IF index < Len(player_turn_order)
  THEN /\ current_player_index' = index
       /\ action_box' = UpdateTurnHighlight(game_over, player_turn_order, index)
       /\ turn_resets' = 0
       /\ UNCHANGED <<current_round, measure_level, game_over, tasks>>
  ELSE IF current_round + 1 > 2
       THEN /\ current_player_index' = index
            /\ current_round' = current_round + 1
            /\ measure_level' = 3
            /\ EndGame(index)
            /\ turn_resets' = turn_resets + resets
       ELSE /\ current_round' = current_round + 1
            /\ current_player_index' = 0
            /\ tasks' = Append(tasks, Task("next", "toss", TOSS_SLEEP))
            /\ turn_resets' = turn_resets + resets
            /\ UNCHANGED <<measure_level, game_over, action_box>>

IndexInRange == InRange(player_turn_order, current_player_index)

\* variant: the level is the round itself
MeasureLevelFor_Round(round) == round

MeasureLevelFor(round) == round + 1

OnMeasure ==
  /\ measure_level' = MeasureLevelFor(current_round)
  /\ EndGame(current_player_index)
  /\ UNCHANGED <<qc, current_player_index, current_round, turn_resets>>

OnPass ==
  /\ NextTurn(0)
  /\ UNCHANGED qc

\* qubits_to_affect = player_q[3:6] if card_choice == '1' else player_q[0:3]
ReShuffleTarget(player_num, card_choice) ==
  <<player_num, IF card_choice = "1" THEN 1 ELSE 2>>

\* a Hadamard on each of the three qubits of player_num in a group
HadamardLayer(group, player_num) ==
  IF IsPure(group)
  THEN [group EXCEPT !.sv = ApplyH3(@, PlayerBase(player_num))]
  ELSE [group EXCEPT !.after[player_num] = 1 - @]

\* self.qc.h(qubits_to_affect)
ReShuffle(circuit, player_num, card) ==
  [circuit EXCEPT
     !.pairs[card] = HadamardLayer(@, player_num),
     !.h[player_num][card] = @ + 1]

\* variant: the Hadamards are added but the turn is not passed on
OnReShuffle_KeepTurn(card_choice) ==
  LET player_num == player_turn_order[current_player_index + 1]
      target == ReShuffleTarget(player_num, card_choice)
  IN /\ qc' = ReShuffle(qc, target[1], target[2])
     /\ turn_resets' = turn_resets + 1
     /\ UNCHANGED <<current_player_index, action_box, current_round,
                    measure_level, game_over, tasks>>

OnReShuffle(card_choice) ==
  LET player_num == player_turn_order[current_player_index + 1]
      target == ReShuffleTarget(player_num, card_choice)
  IN /\ qc' = ReShuffle(qc, target[1], target[2])
     /\ NextTurn(1)

\* the body of a click, run when the event loop reaches the coroutine that
\* the click created; a click whose first line raises IndexError changes
\* nothing.  max_actions bounds the bodies run in a session.
HandlerWithin(max_actions, body) ==
  /\ Len(tasks) < MaxTasks
  /\ nActions < max_actions
  /\ IF IndexInRange
     THEN /\ body
          /\ nActions' = nActions + 1
          /\ round_turns' =
               IF current_round = 1 /\ current_round' = 2 THEN <<>>
               ELSE Append(round_turns,
                           player_turn_order[current_player_index + 1])
          /\ verdict' = NoVerdict
          /\ UNCHANGED <<player_scores, initial_cards, player_hands,
                         player_turn_order, hand_details,
                         start_button, session>>
     ELSE UNCHANGED vars

Handler(body) == HandlerWithin(MaxActions, body)

ClickMeasure == Handler(OnMeasure)
ClickPass == Handler(OnPass)
ClickReShuffle ==
  \E card_choice \in {"1", "2"} : Handler(OnReShuffle(card_choice))

\* the clicks of the game played again
ReplayClickMeasure == HandlerWithin(MaxReplayActions, OnMeasure)
ReplayClickPass == HandlerWithin(MaxReplayActions, OnPass)
ReplayClickReShuffle ==
  \E card_choice \in {"1", "2"} :
    HandlerWithin(MaxReplayActions, OnReShuffle(card_choice))

(* -------------------------- the game's one shot ------------------------ *)
BitsIndex(b) == b[1] + 2 * b[2] + 4 * b[3]
PairIndex(y, z) == BitsIndex(y) + 8 * BitsIndex(z)

\* the bits a measured card can give after `odd` Hadamard layers
AfterLayers(odd, bits) == IF odd = 1 THEN Bits3 ELSE {bits}

\* the outcomes <<Player 1 bits, Player 2 bits>> of card c that have a
\* non-zero probability when both groups are measured
JointOutcomes(circuit, c) ==
  LET group == circuit.pairs[c]
  IN IF IsPure(group)
     THEN {yz \in Bits3 \X Bits3 :
             group.sv.amp[PairIndex(yz[1], yz[2])] # 0}
     ELSE UNION {AfterLayers(group.after[1], e[1]) \X
                   AfterLayers(group.after[2], e[2]) : e \in group.outcomes}

DealerOutcomes(circuit, c) ==
  LET group == circuit.dealer[c]
  IN IF IsPure(group)
     THEN {d \in Bits3 : group.sv.amp[BitsIndex(d)] # 0}
     ELSE group.outcomes

\* a group after measure gates on all its qubits
Collapse(outcomes) == Mixed(outcomes)

\* _add_measurements_to_circuit: measure gates on card 1 (register qubits
\* 3..5) at level 2, on every qubit otherwise
AddMeasurementsToCircuit(circuit, level) ==
  LET Pairs(c) == Collapse(JointOutcomes(circuit, c))
      Dealer(c) == Collapse(DealerOutcomes(circuit, c))
  IN IF level = 2
     THEN [circuit EXCEPT !.pairs[1] = Pairs(1),
                          !.dealer[1] = Dealer(1),
                          !.measured = @ + 1]
     ELSE [circuit EXCEPT !.pairs = <<Pairs(1), Pairs(2)>>,
                          !.dealer = <<Dealer(1), Dealer(2)>>,
                          !.measured = @ + 1,
                          !.level3 = TRUE]

\* the outcomes of a pair of groups that the shot may take, out of the set S
\* of its outcomes of non-zero probability: those that give card values in
\* `values`, every outcome when there is none
PickPairs(S, values) ==
  LET kept == {e \in S : /\ GetCardValueFromBinary(e[1]) \in values
                         /\ GetCardValueFromBinary(e[2]) \in values}
  IN IF kept # {} THEN kept ELSE S

PickBits(S, values) ==
  LET kept == {b \in S : GetCardValueFromBinary(b) \in values}
  IN IF kept # {} THEN kept ELSE S

\* probability that player p's card c is measured as bits b, for a card
\* without measure gates
Marginal(circuit, p, c, b) ==
  LET sv == circuit.pairs[c].sv
      Joint(other) == IF p = 1 THEN Prob(sv, PairIndex(b, other))
                      ELSE Prob(sv, PairIndex(other, b))
      RECURSIVE Total(_)
      Total(S) == IF S = {} THEN 0
                  ELSE LET o == CHOOSE x \in S : TRUE
                       IN Joint(o) + Total(S \ {o})
  IN Total(Bits3)

\* the bits that _process_quantum_results turns into card value v
CardBits(v) == CHOOSE b \in Bits3 : GetCardValueFromBinary(b) = v

\* the distribution of player p's card c over the card values
SlotDistribution(circuit, p, c) ==
  [v \in CardValues |-> Marginal(circuit, p, c, CardBits(v))]

Zero3 == <<0, 0, 0>>

\* a classical register as the simulator prints it: bit 5 first, bit 0 last;
\* card 1 is measured into bits 3..5 and card 2 into bits 0..2
RegisterString(card1, card2) ==
  <<card1[3], card1[2], card1[1], card2[3], card2[2], card2[1]>>

\* get_memory()[0] of a shot in which card 1 is measured as e1 and card 2 as
\* e2 (<<Player 1 bits, Player 2 bits>>) and the Dealer's cards as d1 and
\* d2: the registers in the order of result_str.split(), p2 p1 dealer
ResultString(e1, e2, d1, d2) ==
  <<RegisterString(e1[2], e2[2]), RegisterString(e1[1], e2[1]),
    RegisterString(d1, d2)>>

\* backend.run of the circuit with its measure gates: the possible
\* result_str, as <<p2_res, p1_res, dealer_res>>, with card values in `values`
\* where the circuit allows it.  The bits of card 2 are 0 as long as card 2
\* has no measure gate.
Shots(circuit, values) ==
  LET pairs1 == PickPairs(JointOutcomes(circuit, 1), values)
      pairs2 == IF circuit.level3
                THEN PickPairs(JointOutcomes(circuit, 2), values)
                ELSE {<<Zero3, Zero3>>}
      deal1  == PickBits(DealerOutcomes(circuit, 1), values)
      deal2  == IF circuit.level3
                THEN PickBits(DealerOutcomes(circuit, 2), values)
                ELSE {Zero3}
  IN {ResultString(e1, e2, d1, d2) :
        e1 \in pairs1, e2 \in pairs2, d1 \in deal1, d2 \in deal2}

\* variant: the running total is compared with the target score
DealerTakesSecond_Target(score_before_q2) == score_before_q2 < TARGET_SCORE

DealerTakesSecond(score_before_q2) == score_before_q2 < DEALER_STANDS_THRESHOLD

\* variant: the hands never take the cards of slot 2
ProcessQuantumResults_NoSlot2(cards, result_str, level) ==
  [p \in Participants |->
     <<cards[p],
       GetCardValueFromBinary(Reversed(SubSeq(
         CASE p = "Player 2" -> result_str[1]
           [] p = "Player 1" -> result_str[2]
           [] p = "Dealer" -> result_str[3], 1, 3)))>>]

\* _process_quantum_results: the hands, from the initial cards, the result
\* of the shot and the measure level
ProcessQuantumResults(cards, result_str, level) ==
  LET p2_res == result_str[1]
      p1_res == result_str[2]
      dealer_res == result_str[3]
      p1_q1 == GetCardValueFromBinary(Reversed(SubSeq(p1_res, 1, 3)))
      p2_q1 == GetCardValueFromBinary(Reversed(SubSeq(p2_res, 1, 3)))
      d_q1  == GetCardValueFromBinary(Reversed(SubSeq(dealer_res, 1, 3)))
      p1_q2 == GetCardValueFromBinary(Reversed(SubSeq(p1_res, 4, 6)))
      p2_q2 == GetCardValueFromBinary(Reversed(SubSeq(p2_res, 4, 6)))
      d_q2  == GetCardValueFromBinary(Reversed(SubSeq(dealer_res, 4, 6)))
      first == [p \in Participants |->
                 <<cards[p],
                   CASE p = "Player 1" -> p1_q1
                     [] p = "Player 2" -> p2_q1
                     [] p = "Dealer" -> d_q1>>]
  IN IF level = 3
     THEN [p \in Participants |->
             CASE p = "Player 1" -> Append(first[p], p1_q2)
               [] p = "Player 2" -> Append(first[p], p2_q2)
               [] p = "Dealer" ->
                    IF DealerTakesSecond(Sum(first[p]))
                    THEN Append(first[p], d_q2) ELSE first[p]]
     ELSE first

\* _end_game after its sleep, up to the sleep of _process_quantum_results
EndMeasureFrom(values) ==
  \E i \in 1..Len(tasks) :
    /\ tasks[i].pc = "measure"
    /\ TimerDue(i)
    /\ LET circuit == AddMeasurementsToCircuit(qc, measure_level)
       IN /\ qc' = circuit
          /\ \E result_str \in Shots(circuit, values) :
               /\ player_hands' =
                    ProcessQuantumResults(initial_cards, result_str,
                                          measure_level)
               /\ player_scores' =
                    [p \in Participants |-> Sum(player_hands'[p])]
    /\ hand_details' = NoDetails
    /\ verdict' = NoVerdict
    /\ tasks' = [tasks EXCEPT ![i].pc = "dealer", ![i].wake = RESULTS_SLEEP]
    /\ UNCHANGED <<initial_cards, player_turn_order, current_player_index,
                   game_over, current_round, measure_level, action_box,
                   start_button, nActions, turn_resets, round_turns,
                   session>>

\* the shot gives any outcome that has a non-zero probability
EndMeasure == EndMeasureFrom(CardValues)

\* the shot gives the sampled card values
EndMeasureSampled == EndMeasureFrom(SampledValues)

(* -------------------------- _dealer_final_turn ------------------------- *)
DealerMustDraw(dealer_total) == dealer_total < DEALER_STANDS_THRESHOLD

\* variant: the target score itself is a bust
Busts_Inclusive(score) == score >= TARGET_SCORE

Busts(score) == score > TARGET_SCORE

RECURSIVE MaxOf(_)
MaxOf(s) ==
  IF Len(s) = 1 THEN s[1]
  ELSE LET m == MaxOf(Tail(s)) IN IF s[1] > m THEN s[1] ELSE m

\* _generate_final_summary: who busted, who wins
GenerateFinalSummary(scores) ==
  LET IsBust(p) == Busts(scores[p])
      IsValid(p) == ~Busts(scores[p])
      valid == SelectSeq(DictOrder, IsValid)
  IN IF valid = <<>>
     THEN [kind |-> "house", busted |-> SelectSeq(DictOrder, IsBust),
           winners |-> <<>>]
     ELSE LET max_score == MaxOf([i \in 1..Len(valid) |-> scores[valid[i]]])
              IsMax(p) == scores[p] = max_score
              winners == SelectSeq(valid, IsMax)
          IN [kind |-> IF Len(winners) > 1 THEN "tie" ELSE "win",
              busted |-> SelectSeq(DictOrder, IsBust),
              winners |-> winners]

\* the loop test of _dealer_final_turn, reached after the sleep of
\* _process_quantum_results (pc "dealer") or after the sleep that follows a
\* draw (pc "drawn"), with the next card taken from draws; when the loop ends
\* _generate_final_summary runs, and stops at the revealed hands with a
\* KeyError when a new session has emptied player_hands
DealerCheckFrom(draws) ==
  \E i \in 1..Len(tasks) :
    /\ tasks[i].pc \in {"dealer", "drawn"}
    /\ TimerDue(i)
    /\ LET dealer_total == IF tasks[i].pc = "dealer"
                           THEN player_scores["Dealer"] ELSE tasks[i].total
       IN IF DealerMustDraw(dealer_total)
          THEN /\ \E new_card_val \in draws :
                    tasks' = [tasks EXCEPT ![i] =
                                [kind |-> "end", pc |-> "draw",
                                 wake |-> DRAW_SLEEP,
                                 total |-> dealer_total,
                                 card |-> new_card_val,
                                 draws |-> tasks[i].draws]]
               /\ verdict' = NoVerdict
               /\ UNCHANGED <<hand_details, start_button>>
          ELSE /\ verdict' = GenerateFinalSummary(player_scores)
               /\ IF player_hands # EmptyDict
                  THEN /\ hand_details' =
                            [kind |-> "hands", hands |-> player_hands,
                             scores |-> player_scores]
                       /\ start_button' = TRUE
                  ELSE UNCHANGED <<hand_details, start_button>>
               /\ tasks' = RemoveAt(tasks, i)
    /\ UNCHANGED <<qc, player_scores, initial_cards, player_hands,
                   player_turn_order, current_player_index, game_over,
                   current_round, measure_level, action_box, nActions,
                   turn_resets, round_turns, session>>

\* the Dealer draws any card
DealerCheck == DealerCheckFrom(DrawInputs)

\* the Dealer draws the sampled cards
DealerCheckSampled == DealerCheckFrom(SampledDraws)

\* the body of the loop after its first sleep; the append raises KeyError
\* when a new session has emptied player_hands
DealerDraw ==
  \E i \in 1..Len(tasks) :
    /\ tasks[i].pc = "draw"
    /\ TimerDue(i)
    /\ LET dealer_total == tasks[i].total + tasks[i].card
       IN IF "Dealer" \in DOMAIN player_hands
          THEN /\ player_hands' = [player_hands EXCEPT
                                     !["Dealer"] = Append(@, tasks[i].card)]
               /\ player_scores' =
                    [player_scores EXCEPT !["Dealer"] = dealer_total]
               /\ verdict' = NoVerdict
               /\ tasks' = [tasks EXCEPT ![i] =
                              [kind |-> "end", pc |-> "drawn",
                               wake |-> DRAWN_SLEEP,
                               total |-> dealer_total, card |-> 0,
                               draws |-> tasks[i].draws + 1]]
          ELSE /\ tasks' = RemoveAt(tasks, i)
               /\ UNCHANGED <<player_hands, player_scores, verdict>>
    /\ UNCHANGED <<qc, initial_cards, player_turn_order, current_player_index,
                   game_over, current_round, measure_level, action_box,
                   hand_details, start_button, nActions, turn_resets,
                   round_turns, session>>

\* half a second passes while every coroutine sleeps
Tick ==
  /\ tasks # <<>>
  /\ \A i \in 1..Len(tasks) : tasks[i].wake > 0
  /\ tasks' = [i \in 1..Len(tasks) |-> [tasks[i] EXCEPT !.wake = @ - 1]]
  /\ UNCHANGED <<qc, player_scores, initial_cards, player_hands,
                 player_turn_order, current_player_index, game_over,
                 current_round, measure_level, action_box, hand_details,
                 verdict, start_button, nActions, turn_resets, round_turns,
                 session>>

Next ==
  \/ StartGame
  \/ CoinToss
  \/ ShowTurn
  \/ ClickMeasure
  \/ ClickPass
  \/ ClickReShuffle
  \/ EndMeasure
  \/ DealerCheck
  \/ DealerDraw
  \/ Tick

Spec == Init /\ [][Next]_vars

\* one session with the sampled inputs
NextSampled ==
  \/ StartGameSampled
  \/ CoinToss
  \/ ShowTurn
  \/ ClickMeasure
  \/ ClickPass
  \/ ClickReShuffle
  \/ EndMeasureSampled
  \/ DealerCheckSampled
  \/ DealerDraw
  \/ Tick

SpecSampled == Init /\ [][NextSampled]_vars

\* the game played again: every session starts from what the last one left
NextReplay ==
  \/ PlayAgain
  \/ CoinToss
  \/ ShowTurn
  \/ ReplayClickMeasure
  \/ ReplayClickPass
  \/ ReplayClickReShuffle
  \/ EndMeasureSampled
  \/ DealerCheckSampled
  \/ DealerDraw
  \/ Tick

\* the timers of the event loop fire, so a coroutine that sleeps is resumed
SpecReplay ==
  /\ Init /\ [][NextReplay]_vars
  /\ WF_vars(CoinToss) /\ WF_vars(ShowTurn) /\ WF_vars(EndMeasureSampled)
  /\ WF_vars(DealerCheckSampled) /\ WF_vars(DealerDraw) /\ WF_vars(Tick)

(* ------------------------------ properties ----------------------------- *)
\* a step in which the body of a click runs past its first line
ClickStep == nActions' = nActions + 1

\* a step that adds a coroutine running _end_game
EndStep ==
  /\ Len(tasks') = Len(tasks) + 1
  /\ tasks'[Len(tasks')].kind = "end"

\* a step in which the click is a Measure
MeasureClick == ClickStep /\ EndStep /\ current_round' = current_round

\* a step that adds player p's Hadamards to card c
ReshuffleOn(p, c) ==
  /\ qc.built /\ qc'.built
  /\ qc'.h[p][c] = qc.h[p][c] + 1

\* a step that runs the circuit and derives the hands
MeasureStep == qc'.measured = qc.measured + 1

Uniform == [v \in CardValues |-> ProbOne \div 8]
HandOf(n) == player_hands[PlayerName(n)]

\* the circuit has been run and slot k is part of the hands
Sampled(k) == qc.measured > 0 /\ Len(HandOf(1)) > k

\* 3-bit reversal of a number in 0..7
Rev3(n) == 4 * (n % 2) + 2 * ((n \div 2) % 2) + (n \div 4)

\* in hands, Player 2's value of slot k, minus one, is the bit reversal of
\* Player 1's
CorrelatedIn(hands, k) ==
  hands["Player 2"][k + 1] - 1 = Rev3(hands["Player 1"][k + 1] - 1)

Correlated(k) == CorrelatedIn(player_hands, k)

\* C1: the measure level is set by the step that ends the game, to one more
\* than the round it is taken in (2 in round 1, 3 in round 2, by Measure or by
\* the Pass that completes round 2), it changes in no other step, and the
\* hands that the measurement builds hold that many cards.
C1_MeasureLevel ==
  [][/\ EndStep =>
          /\ measure_level' = current_round + 1
          /\ measure_level' = (IF current_round = 1 THEN 2 ELSE 3)
     /\ measure_level' # measure_level => EndStep
     /\ MeasureStep =>
          /\ Len(player_hands'["Player 1"]) = measure_level
          /\ Len(player_hands'["Player 2"]) = measure_level]_vars

C1_Witness ==
  /\ game_over /\ current_round = 1 /\ measure_level = 2
  /\ qc.measured = 1 /\ Len(HandOf(1)) = 2

\* C2: turn actions are strictly serialized: a click is accepted only when no
\* earlier handler (round change or end sequence included) is still suspended.
C2_Serialized == [][ClickStep => tasks = <<>>]_vars

\* C3: Ended is terminal: once game_over is set no click is accepted, and the
\* round, the turn index, the measure level and the players' gates stay as
\* they are until a new game is started.
C3_EndedTerminal ==
  [][(game_over /\ session' = session) =>
       /\ ~ClickStep
       /\ current_round' = current_round
       /\ current_player_index' = current_player_index
       /\ measure_level' = measure_level
       /\ qc'.h = qc.h]_vars

\* C4: the measure level does not change once the game is over.
C4_LevelFrozen ==
  [][(game_over /\ game_over') => measure_level' = measure_level]_vars

\* C5: the circuit is measured exactly once per game, at the end: never
\* before game_over, never twice, and the hands and the verdict of a game come
\* from that one run.
C5_SampledOnce ==
  /\ qc.measured <= 1
  /\ qc.measured = 1 => game_over
  /\ player_hands # EmptyDict => qc.measured = 1
  /\ (game_over /\ \A i \in 1..Len(tasks) : tasks[i].pc # "measure")
       => qc.measured = 1

\* every setting of the three angles of a card
AngleTriples == Angles \X Angles \X Angles

\* C6: for every sampled slot, whatever Skips and Resets were
\* played, Player 2's value minus one is the 3-bit reversal of Player 1's
\* value minus one.
C6_PerfectCorrelation == \A k \in 1..2 : Sampled(k) => Correlated(k)

\* a step that adds player p's Hadamards to card c before any measure gate
ResetOfSlot(p, c) == ReshuffleOn(p, c) /\ qc.measured = 0

\* C7: after any Reset of a slot, the first or a later one, the
\* slot's outcome distribution is the uniform one.
C7_ResetIdempotent ==
  [][\A p \in 1..2, c \in 1..2 :
       ResetOfSlot(p, c) => SlotDistribution(qc', p, c) = Uniform]_vars

\* C8: every accepted click is attributed to the player whose box shows the
\* action buttons, the change of round included.
C8_ActionByOfferedPlayer ==
  [][ClickStep =>
       player_turn_order[current_player_index + 1] = action_box]_vars

\* C9: a Reset is applied at most once per turn and only to a slot of the
\* player who takes the turn; the Dealer's qubits and the other slots keep
\* their distributions.
C9_ResetOwnSlotOnce ==
  [][\A p \in 1..2, c \in 1..2 :
       ResetOfSlot(p, c) =>
         /\ p = action_box
         /\ turn_resets = 0
         /\ qc'.dealer = qc.dealer
         /\ \A q \in 1..2, d \in 1..2 :
              <<q, d>> # <<p, c>> =>
                SlotDistribution(qc', q, d) = SlotDistribution(qc, q, d)]_vars

\* the Dealer's hand grows by one card outside the measurement
DealerDrew ==
  /\ qc'.measured = qc.measured
  /\ "Dealer" \in DOMAIN player_hands
  /\ "Dealer" \in DOMAIN player_hands'
  /\ Len(player_hands'["Dealer"]) = Len(player_hands["Dealer"]) + 1

\* a step that shows the summary with the revealed hands
SummaryStep == start_button' /\ ~start_button

\* C10: in the automatic phase the Dealer draws a card of value 1..8 only
\* while the total is below 14, the score follows the hand, and the phase
\* ends (the summary is shown) only with a total of 14 or more.
C10_DealerRule ==
  [][/\ DealerDrew =>
          /\ Sum(player_hands["Dealer"]) < DEALER_STANDS_THRESHOLD
          /\ player_hands'["Dealer"][Len(player_hands'["Dealer"])]
               \in MIN_CARD_VALUE..MAX_CARD_VALUE
          /\ player_scores'["Dealer"] = Sum(player_hands'["Dealer"])
     /\ SummaryStep =>
          /\ player_scores["Dealer"] >= DEALER_STANDS_THRESHOLD
          /\ player_scores["Dealer"] = Sum(player_hands["Dealer"])]_vars

\* the card value of a slot whose qubits, in the order they have in the
\* slot, are measured as bits: the first qubit is the highest binary digit
CardOf(bits) == 4 * bits[1] + 2 * bits[2] + bits[3] + 1

Mirror(bits) == <<bits[3], bits[2], bits[1]>>

\* the outcomes of the two cards of the players and of the Dealer
PairOutcomes == Bits3 \X Bits3

\* the angles that leave each qubit of Player 1 with one outcome: after the
\* Hadamard a rotation by pi/2 gives 1 and a rotation by 3*pi/2 gives 0
SureAngles == {1, 3}
SureTriples == SureAngles \X SureAngles \X SureAngles
SureBits(a) == [j \in 1..3 |-> IF a[j] = 1 THEN 1 ELSE 0]

\* the hands of a shot in which the players' slot k is measured as e[k] and
\* the Dealer's as d[k]: the initial card, the value of slot 1 and, at level
\* 3 for the players, the value of slot 2
HandsOfOutcomes(cards, e, d, level) ==
  LET hands == ProcessQuantumResults(cards,
                                     ResultString(e[1], e[2], d[1], d[2]),
                                     level)
  IN /\ hands["Dealer"][1] = cards["Dealer"]
     /\ hands["Dealer"][2] = CardOf(d[1])
     /\ IF level = 2
        THEN /\ hands["Dealer"] = <<cards["Dealer"], CardOf(d[1])>>
             /\ hands["Player 1"] = <<cards["Player 1"], CardOf(e[1][1])>>
             /\ hands["Player 2"] = <<cards["Player 2"], CardOf(e[1][2])>>
        ELSE /\ hands["Player 1"] =
                  <<cards["Player 1"], CardOf(e[1][1]), CardOf(e[2][1])>>
             /\ hands["Player 2"] =
                  <<cards["Player 2"], CardOf(e[1][2]), CardOf(e[2][2])>>

\* the run of a newly prepared circuit in which every qubit of Player 1 has
\* one outcome: slot 1 gives the values of the angles a1 and slot 2 those of
\* a2, Player 2's being mirrored; at level 2 no bit of card 2 is set
SureHands(cards, a1, a2, level) ==
  LET circuit == AddMeasurementsToCircuit(PrepareQuantumCircuit(a1, a2), level)
      b1 == SureBits(a1)
      b2 == SureBits(a2)
  IN \A result_str \in Shots(circuit, CardValues) :
       LET hands == ProcessQuantumResults(cards, result_str, level)
       IN /\ SubSeq(hands["Player 1"], 1, 2) = <<cards["Player 1"], CardOf(b1)>>
          /\ SubSeq(hands["Player 2"], 1, 2) =
               <<cards["Player 2"], CardOf(Mirror(b1))>>
          /\ level = 2 =>
               /\ \A p \in Participants : Len(hands[p]) = 2
               /\ \A r \in 1..3 : SubSeq(result_str[r], 4, 6) = Zero3
          /\ level = 3 =>
               /\ hands["Player 1"] =
                    <<cards["Player 1"], CardOf(b1), CardOf(b2)>>
               /\ hands["Player 2"] =
                    <<cards["Player 2"], CardOf(Mirror(b1)), CardOf(Mirror(b2))>>

\* C11: the derived hands start with the initial card followed by the value
\* of slot 1; at measure level 2 slot 2 gets no measure gate and gives
\* nothing, and every hand is exactly these two cards whatever slot 2 holds;
\* at measure level 3 both players' hands are exactly the initial card, the
\* value of slot 1 and the value of slot 2.  This holds for every outcome of
\* the six groups, for every deal, for every circuit whose outcomes are
\* certain, and in the runs of the sessions.
C11_HandComposition ==
  /\ \A deal \in SampledDeals, level \in {2, 3},
        e1 \in PairOutcomes, e2 \in PairOutcomes, d1 \in Bits3, d2 \in Bits3 :
       HandsOfOutcomes(InitialCards(deal), <<e1, e2>>, <<d1, d2>>, level)
  /\ \A deal \in DealInputs, level \in {2, 3}, b \in Bits3 :
       HandsOfOutcomes(InitialCards(deal), <<<<b, Mirror(b)>>, <<Mirror(b), b>>>>,
                       <<b, Mirror(b)>>, level)
  /\ \A a1 \in SureTriples, a2 \in SureTriples, level \in {2, 3} :
       SureHands(InitialCards(FirstDeal), a1, a2, level)
  /\ [][MeasureStep =>
       /\ \E e1 \in JointOutcomes(qc, 1), d1 \in DealerOutcomes(qc, 1) :
            /\ SubSeq(player_hands'["Player 1"], 1, 2) =
                 <<initial_cards["Player 1"], CardOf(e1[1])>>
            /\ SubSeq(player_hands'["Player 2"], 1, 2) =
                 <<initial_cards["Player 2"], CardOf(e1[2])>>
            /\ SubSeq(player_hands'["Dealer"], 1, 2) =
                 <<initial_cards["Dealer"], CardOf(d1)>>
       /\ measure_level = 2 =>
            /\ \A p \in Participants : Len(player_hands'[p]) = 2
            /\ qc'.pairs[2] = qc.pairs[2] /\ qc'.dealer[2] = qc.dealer[2]
            /\ qc'.level3 = qc.level3
       /\ measure_level = 3 =>
            \E e2 \in JointOutcomes(qc, 2) :
              /\ Len(player_hands'["Player 1"]) = 3
              /\ Len(player_hands'["Player 2"]) = 3
              /\ player_hands'["Player 1"][3] = CardOf(e2[1])
              /\ player_hands'["Player 2"][3] = CardOf(e2[2])]_vars

C11_Witness ==
  /\ qc.measured = 1 /\ measure_level = 2 /\ qc.h[1][2] = 1
  /\ \A p \in Participants : Len(player_hands[p]) = 2

\* C12: at measure level 3 the Dealer's hand gets the slot-2 value exactly
\* when initial card + slot-1 value is below 14; otherwise the derived hand
\* has two cards.  This holds for every initial card and every outcome of the
\* Dealer's two slots, and in the runs of the sessions.
C12_DealerSecondSlot ==
  /\ \A deal \in DealInputs, d1 \in Bits3, d2 \in Bits3,
        e \in {<<Zero3, Zero3>>, <<SureBits(<<1, 1, 1>>), SureBits(<<1, 1, 1>>)>>} :
       LET hands == ProcessQuantumResults(InitialCards(deal),
                                          ResultString(e, e, d1, d2), 3)
       IN hands["Dealer"] =
            IF deal[1] + CardOf(d1) < 14
            THEN <<deal[1], CardOf(d1), CardOf(d2)>>
            ELSE <<deal[1], CardOf(d1)>>
  /\ [][(MeasureStep /\ measure_level = 3) =>
       LET hand == player_hands'["Dealer"]
           running == initial_cards["Dealer"] + hand[2]
       IN IF running < DEALER_STANDS_THRESHOLD
          THEN /\ Len(hand) = 3
               /\ \E d \in DealerOutcomes(qc, 2) : hand[3] = CardOf(d)
          ELSE Len(hand) = 2]_vars

C12_Witness ==
  /\ qc.measured = 1 /\ measure_level = 3
  /\ player_hands["Dealer"] = <<6, 8>>
  /\ \E i \in 1..Len(tasks) : tasks[i].pc = "dealer"

SeqToSet(s) == {s[i] : i \in 1..Len(s)}

\* the scores of three hands of two or three cards
ScoreTriples == [Participants -> 2..(3 * MAX_CARD_VALUE)]

\* summary names the busted participants and the winners that scores gives
FollowsRule(summary, scores) ==
  LET busted == {p \in Participants : scores[p] > TARGET_SCORE}
      valid == Participants \ busted
      best == {p \in valid : \A q \in valid : scores[q] <= scores[p]}
  IN /\ SeqToSet(summary.busted) = busted
     /\ Len(summary.busted) = Cardinality(busted)
     /\ SeqToSet(summary.winners) = best
     /\ Len(summary.winners) = Cardinality(best)
     /\ summary.kind = "house" <=> valid = {}
     /\ summary.kind = "win" <=> Cardinality(best) = 1
     /\ summary.kind = "tie" <=> Cardinality(best) > 1

\* C13: a participant busts exactly when its score is above 17; the verdict
\* names exactly the non-busted participants with the highest non-busted
\* score, as one winner or as a tie of all of them, and is "house wins"
\* exactly when all three bust; this holds for the verdicts of the sessions
\* and for the summary of every triple of scores.
C13_WinnerDetermination ==
  /\ \A scores \in ScoreTriples :
       FollowsRule(GenerateFinalSummary(scores), scores)
  /\ [](verdict.kind # "none" => FollowsRule(verdict, player_scores))

C13_Witness ==
  /\ verdict.kind = "win" /\ Len(verdict.busted) >= 1
  /\ player_scores[verdict.winners[1]] = TARGET_SCORE

\* C14: in every state of every session each participant's recorded score is
\* the sum of its revealed hand, and a participant without a revealed hand
\* has no score.
C14_ScoreIsSumOfHand ==
  \A p \in Participants :
    IF p \in DOMAIN player_hands
    THEN p \in DOMAIN player_scores /\ player_scores[p] = Sum(player_hands[p])
    ELSE p \notin DOMAIN player_scores

\* a step that starts a session
StartStep == session' = session + 1

\* C15: starting a session leaves nothing of the previous one: round 1,
\* index 0, game not over, no hands, no scores, the measure level of a new
\* controller, and a newly built circuit without Resets or measurements.
C15_FreshSession ==
  [][StartStep =>
       /\ current_round' = 1
       /\ current_player_index' = 0
       /\ ~game_over'
       /\ player_hands' = EmptyDict
       /\ player_scores' = EmptyDict
       /\ measure_level' = 3
       /\ qc'.built /\ qc'.measured = 0
       /\ qc'.h = << <<0, 0>>, <<0, 0>> >>
       /\ \E angles \in SampledAngles :
            qc' = PrepareQuantumCircuit(angles[1], angles[2])]_vars

\* a step in which a Pass is accepted: no gate is added and the click is not
\* a Measure
SkipStep == ClickStep /\ qc' = qc /\ ~MeasureClick

\* C16: a Skip moves the index on by one; the Skip that completes round 1
\* moves the controller to round 2 with index 0 and a new coin toss pending,
\* the Skip that completes round 2 ends the game with measure level 3.
C16_SkipTransitions ==
  [][SkipStep =>
       IF current_player_index + 1 < Len(player_turn_order)
       THEN /\ current_player_index' = current_player_index + 1
            /\ current_round' = current_round
            /\ game_over' = game_over
       ELSE IF current_round = 1
            THEN /\ current_round' = 2
                 /\ current_player_index' = 0
                 /\ game_over' = game_over
                 /\ tasks' = Append(tasks, Task("next", "toss", TOSS_SLEEP))
            ELSE /\ game_over'
                 /\ measure_level' = 3
                 /\ tasks' = Append(tasks, Task("end", "measure", END_SLEEP))]_vars

C16_Witness ==
  /\ current_round = 2 /\ ~game_over /\ action_box # 0 /\ tasks = <<>>
  /\ current_player_index = 0 /\ player_turn_order = <<2, 1>>
  /\ nActions = 2 /\ qc.h = << <<0, 0>>, <<0, 0>> >>

\* the pc of the oldest coroutine that runs _end_game, "none" when there is
\* none
EndPc ==
  IF \E i \in 1..Len(tasks) : tasks[i].kind = "end"
  THEN tasks[CHOOSE i \in 1..Len(tasks) :
               /\ tasks[i].kind = "end"
               /\ \A j \in 1..(i - 1) : tasks[j].kind # "end"].pc
  ELSE "none"

\* a step that publishes the verdict
VerdictStep == verdict' # verdict /\ verdict'.kind # "none"

\* C17: after the game is over the circuit is sampled and the hands derived,
\* then the Dealer draws, then the verdict is computed, with no click
\* accepted in between; the verdict comes only when the Dealer's draws are
\* finished.
C17_EndOrder ==
  [][/\ MeasureStep =>
          /\ game_over /\ EndPc = "measure" /\ player_hands = EmptyDict
          /\ verdict.kind = "none" /\ EndPc' = "dealer"
     /\ DealerDrew =>
          /\ qc.measured = 1 /\ verdict.kind = "none" /\ EndPc = "draw"
     /\ VerdictStep =>
          /\ qc.measured = 1 /\ EndPc \in {"dealer", "drawn"}
          /\ EndPc' = "none"
          /\ player_scores["Dealer"] >= DEALER_STANDS_THRESHOLD
          /\ player_scores' = player_scores /\ player_hands' = player_hands
     /\ (game_over /\ EndPc # "none") => ~ClickStep]_vars

Permutations2 == {<<1, 2>>, <<2, 1>>}

\* C18: whenever a click can be accepted or the action buttons are offered
\* the turn order is <<1, 2>> or <<2, 1>>; coin outcome 0 gives <<1, 2>> and
\* outcome 1 gives <<2, 1>>.
C18_TurnOrderPermutation ==
  /\ action_box # 0 => player_turn_order \in Permutations2
  /\ IndexInRange => player_turn_order \in Permutations2
  /\ player_turn_order # <<>> => player_turn_order \in Permutations2
  /\ DetermineTurnOrder(0) = <<1, 2>>
  /\ DetermineTurnOrder(1) = <<2, 1>>

C18_Witness ==
  /\ action_box = 1 /\ current_round = 2 /\ tasks = <<>>
  /\ player_turn_order = <<2, 1>> /\ current_player_index = 1

\* the bits of a card whose statevector index is n
IndexBits(n) == CHOOSE b \in Bits3 : BitsIndex(b) = n

\* what the snapshot of Player 1's card c would show for the circuit as it
\* stands: entry n is the probability of basis state n - 1
CurrentSnapshot(circuit, c) ==
  [n \in 1..8 |-> Marginal(circuit, 1, c, IndexBits(n - 1))]

\* C19: while the game is not over the published snapshot of each slot is
\* the slot's current distribution, also after a Reset.
C19_SnapshotCurrent ==
  (~game_over /\ hand_details.kind = "dist" /\ qc.measured = 0) =>
    /\ hand_details.card1 = CurrentSnapshot(qc, 1)
    /\ hand_details.card2 = CurrentSnapshot(qc, 2)

\* the distribution of the Dealer's card c over the card values
DealerDistribution(circuit, c) ==
  [v \in CardValues |-> Prob(circuit.dealer[c].sv, BitsIndex(CardBits(v)))]

\* distribution d gives each of the eight values a probability and the
\* probabilities sum to 1
IsDistribution(d) ==
  /\ DOMAIN d = CardValues
  /\ \A v \in DOMAIN d : d[v] \in 0..ProbOne
  /\ Sum(d) = ProbOne

\* C20: every slot distribution that comes to exist in the session (the
\* Dealer's uniform slots, the players' slots as prepared and after every
\* Reset, and the published snapshot) gives each of the eight values a
\* probability, and the probabilities sum to 1; so do the distributions
\* of every setting of the angles, as prepared and after a Reset.
C20_DistributionsSumToOne ==
  /\ \A a \in AngleTriples :
       LET circuit == PrepareQuantumCircuit(a, a)
       IN /\ IsDistribution(Probabilities(a))
          /\ Len(Probabilities(a)) = MAX_CARD_VALUE
          /\ \A c \in 1..2 : DealerDistribution(circuit, c) = Uniform
          /\ \A p \in 1..2 :
               /\ IsDistribution(SlotDistribution(circuit, p, 1))
               /\ \A q \in 1..2 :
                    IsDistribution(SlotDistribution(ReShuffle(circuit, q, 1),
                                                    p, 1))
  /\ [][(qc'.built /\ qc'.measured = 0 /\ qc'.pairs # qc.pairs) =>
       /\ \A p \in 1..2, c \in 1..2 :
            LET d == SlotDistribution(qc', p, c) IN IsDistribution(d)
       /\ \A c \in 1..2 :
            LET d == DealerDistribution(qc', c)
            IN IsDistribution(d) /\ d = Uniform
       /\ hand_details'.kind = "dist" =>
            /\ IsDistribution(hand_details'.card1)
            /\ IsDistribution(hand_details'.card2)]_vars

C20_Witness ==
  /\ qc.built /\ qc.measured = 0 /\ qc.h[1][1] = 1 /\ qc.h[2][2] = 1
  /\ SlotDistribution(qc, 1, 2) # Uniform

\* a step in which a Re-Shuffle is accepted in an active state
ResetStep ==
  /\ ClickStep /\ ~game_over
  /\ \E p \in 1..2, c \in 1..2 : ReshuffleOn(p, c)

\* C21: a Reset uses up the turn as a Skip does: index, round, game-over
\* flag, measure level and pending coroutines move as for a Skip, the turn
\* order and the initial cards stay, and only the chosen slot changes.
C21_ResetAsSkip ==
  [][ResetStep =>
       /\ IF current_player_index + 1 < Len(player_turn_order)
          THEN /\ current_player_index' = current_player_index + 1
               /\ current_round' = current_round
               /\ game_over' = game_over
               /\ measure_level' = measure_level
               /\ tasks' = tasks
               /\ action_box' = player_turn_order[current_player_index + 2]
          ELSE IF current_round = 1
               THEN /\ current_round' = 2
                    /\ current_player_index' = 0
                    /\ ~game_over'
                    /\ measure_level' = measure_level
                    /\ tasks' = Append(tasks, Task("next", "toss", TOSS_SLEEP))
                    /\ action_box' = action_box
               ELSE /\ game_over'
                    /\ measure_level' = 3
                    /\ tasks' = Append(tasks, Task("end", "measure", END_SLEEP))
                    /\ action_box' = 0
       /\ player_turn_order' = player_turn_order
       /\ initial_cards' = initial_cards
       /\ player_hands' = player_hands /\ player_scores' = player_scores
       /\ qc'.dealer = qc.dealer /\ qc'.measured = qc.measured
       /\ \E p \in 1..2, c \in 1..2 :
            /\ ReshuffleOn(p, c)
            /\ qc'.pairs[3 - c] = qc.pairs[3 - c]
            /\ qc'.h[3 - p] = qc.h[3 - p]
            /\ qc'.h[p][3 - c] = qc.h[p][3 - c]
            /\ IsPure(qc.pairs[c]) =>
                 SlotDistribution(qc', 3 - p, c) = SlotDistribution(qc, 3 - p, c)]_vars

C21_Witness ==
  /\ current_round = 2 /\ ~game_over /\ tasks = <<>> /\ action_box # 0
  /\ current_player_index = 1 /\ nActions = 3
  /\ qc.h = << <<1, 0>>, <<0, 1>> >>

\* the value of three register characters: reversed, read in base 2, plus 1
ValueOfChars(chars) == 4 * chars[3] + 2 * chars[2] + chars[1] + 1

AllCards == UNION {SeqToSet(player_hands[p]) : p \in DOMAIN player_hands}

\* the results the circuit can give when it is run as the oldest _end_game
\* is about to run it
NextShots == Shots(AddMeasurementsToCircuit(qc, measure_level), SampledValues)

\* the strings a 6-bit classical register can print
Registers == {<<a[1], a[2], a[3], b[1], b[2], b[3]>> : a \in Bits3, b \in Bits3}

\* the register of participant p in result_str
RegisterOf(result_str, p) ==
  CASE p = "Player 2" -> result_str[1]
    [] p = "Player 1" -> result_str[2]
    [] p = "Dealer" -> result_str[3]

\* in the hands derived from result_str slot 1 of every participant is the
\* value of the first three characters of its register and slot 2, when the
\* hand has it, the value of the last three; every card is in 1..8
DerivedFrom(cards, result_str, level) ==
  LET hands == ProcessQuantumResults(cards, result_str, level)
  IN \A p \in Participants :
       /\ hands[p][1] = cards[p]
       /\ hands[p][2] = ValueOfChars(SubSeq(RegisterOf(result_str, p), 1, 3))
       /\ Len(hands[p]) \in {2, 3}
       /\ Len(hands[p]) = 3 =>
            hands[p][3] = ValueOfChars(SubSeq(RegisterOf(result_str, p), 4, 6))
       /\ \A i \in 1..Len(hands[p]) :
            hands[p][i] \in MIN_CARD_VALUE..MAX_CARD_VALUE

\* C22: the value of every 3-bit group is its bit string reversed and read
\* in base 2, plus 1, a value in 1..8; for every result of the run slot 1 of
\* a participant is the value of the first three characters of its register
\* and slot 2 that of the last three; every initial card, every card the
\* Dealer draws and every card of every hand is in 1..8.
C22_CardValueDerivation ==
  /\ \A b \in Bits3 :
       /\ GetCardValueFromBinary(Reversed(b)) = ValueOfChars(b)
       /\ GetCardValueFromBinary(Reversed(b)) \in 1..8
  /\ {GetCardValueFromBinary(Reversed(b)) : b \in Bits3} = 1..8
  /\ \A p2_res \in Registers, p1_res \in Registers, dealer_res \in Registers,
        level \in {2, 3} :
       /\ DerivedFrom(InitialCards(<<1, 1, 1>>),
                      <<p2_res, p1_res, dealer_res>>, level)
       /\ DerivedFrom(InitialCards(<<8, 8, 8>>),
                      <<p2_res, p1_res, dealer_res>>, level)
  /\ \A deal \in DealInputs, i \in 1..3 : deal[i] \in 1..8
  /\ DrawInputs \subseteq 1..8
  /\ [](/\ AllCards \subseteq MIN_CARD_VALUE..MAX_CARD_VALUE
        /\ \A p \in DOMAIN initial_cards :
             initial_cards[p] \in MIN_CARD_VALUE..MAX_CARD_VALUE
        /\ EndPc = "measure" =>
             \A result_str \in NextShots :
               DerivedFrom(initial_cards, result_str, measure_level))

C22_Witness ==
  /\ EndPc = "measure" /\ measure_level = 3
  /\ \E result_str \in NextShots :
       /\ SubSeq(result_str[2], 1, 3) = <<1, 1, 1>>
       /\ SubSeq(result_str[3], 4, 6) = <<1, 0, 0>>

\* the player a click accepted in this state is attributed to
Attributed == player_turn_order[current_player_index + 1]

\* the coin of the current round has not been tossed yet
TossPending == \E i \in 1..Len(tasks) : tasks[i].pc = "toss"

\* C23: in a round each player takes exactly one turn, in the order of the
\* round's coin toss: a click is accepted only once the round's order is
\* tossed, no player acts twice in a round, a round is completed by both
\* players, and a session has at most four accepted clicks.
C23_OneTurnPerRound ==
  [][ClickStep =>
       LET turns == Append(round_turns, Attributed) IN
       /\ ~TossPending
       /\ \A i, j \in 1..Len(turns) : turns[i] = turns[j] => i = j
       /\ turns = SubSeq(player_turn_order, 1, Len(turns))
       /\ (current_round' # current_round) => SeqToSet(turns) = {1, 2}
       /\ nActions' <= 4]_vars

\* C24: every end sequence that has begun reaches a verdict, and the Dealer's
\* loop draws at most 12 cards on the way.
C24_EndTerminates ==
  /\ [](\A i \in 1..Len(tasks) : tasks[i].draws <= 12)
  /\ (\E i \in 1..Len(tasks) : tasks[i].kind = "end")
       ~> (verdict.kind # "none")

\* C25: when the verdict is computed the Dealer's score is in 14..21 and the
\* Dealer's hand has at least two cards.
C25_DealerScoreRange ==
  verdict.kind # "none" =>
    /\ player_scores["Dealer"] \in DEALER_STANDS_THRESHOLD..21
    /\ player_scores["Dealer"] = Sum(player_hands["Dealer"])
    /\ Len(player_hands["Dealer"]) >= 2

\* C26: before any Reset, the probability the snapshot shows for "Value v" of
\* Player 1's slot is the probability that the slot is measured as card
\* value v.
C26_SnapshotMatchesDerivation ==
  (hand_details.kind = "dist" /\ qc.measured = 0 /\ qc.h[1] = <<0, 0>>) =>
    /\ hand_details.card1 = SlotDistribution(qc, 1, 1)
    /\ hand_details.card2 = SlotDistribution(qc, 1, 2)

\* the amplitudes stay within the units in which probabilities are counted
WithinUnits ==
  qc.built =>
    \A c \in 1..2 :
      IsPure(qc.pairs[c]) =>
        qc.pairs[c].sv.exp <= MaxExp /\ qc.pairs[c].sv.p5 <= MaxP5
=============================================================================
